---- MODULE Spec2Model ----
(***************************************************************************)
(* The streaming response accumulator of google.generativeai               *)
(* (types/generation_types.py): GenerateContentResponse, the merge of      *)
(* partial responses (_join_chunks and its helpers), the accessors of     *)
(* BaseGenerateContentResponse, and AsyncGenerateContentResponse.          *)
(*                                                                         *)
(* A glm.GenerateContentResponse is a record                               *)
(*   [candidates, prompt_feedback |-> [block_reason]]                      *)
(* a glm.Candidate a record                                                *)
(*   [index, content |-> [role, parts], finish_reason, safety_ratings,     *)
(*    citation_metadata |-> [citation_sources]]                            *)
(* and a glm.Part a record [kind, text]: kind names the field of the       *)
(* oneof that is set ("text", "function_call", "inline_data"); text is the *)
(* value read by part.text, "" when another field is set.                  *)
(* An exception is a string naming it; None is "None".                     *)
(***************************************************************************)
EXTENDS Naturals, Sequences, FiniteSets, TLC

VARIABLES
    input,      \* the constructor called and its argument (never changes)
    iterator,   \* self._iterator: the upstream, with the number of next() calls
    done,       \* self._done
    error,      \* self._error
    result,     \* self._result
    chunks,     \* self._chunks
    gens,       \* each consumer's generator object, made by __iter__
    touched,    \* some generator has been advanced or resolve() has been called
    last,       \* the caller's last operation and its outcome
    awaits      \* the calls of await anext(self._iterator) not yet answered

vars == <<input, iterator, done, error, result, chunks, gens, touched, last, awaits>>

----------------------------------------------------------------------------
\* Bounds of the model

\* the longest upstream (number of messages before its end or its error)
MaxLen == 2

\* The most messages given to the merge on its own
MaxChunks == 3

----------------------------------------------------------------------------
\* Exceptions.  Enum values are their wire numbers: a block reason of 0 is
\* BLOCK_REASON_UNSPECIFIED (falsy), 1 is SAFETY; a finish reason of 0 is
\* FINISH_REASON_UNSPECIFIED, 1 is STOP, 2 is MAX_TOKENS.

None == "None"

BlockedPromptException == "BlockedPromptException"

IncompleteIterationError == "IncompleteIterationError"

ValueError == "ValueError"

IndexError == "IndexError"

AssertionError == "AssertionError"

StopIteration == "StopIteration"

StopAsyncIteration == "StopAsyncIteration"

TypeError == "TypeError"

\* what a generator raises when a StopIteration escapes from its body
RuntimeError == "RuntimeError"

\* the exceptions an upstream raises (anything but StopIteration)
UpstreamErrors == {"ConnectionError", "TimeoutError"}

----------------------------------------------------------------------------
\* Sequence helpers

RECURSIVE Flatten(_)
Flatten(ss) == IF ss = <<>> THEN <<>> ELSE Head(ss) \o Flatten(Tail(ss))

\* The elements of a set of naturals in ascending order: sorted(...)
RECURSIVE SortedSeq(_)
SortedSeq(S) ==
    IF S = {} THEN <<>>
    ELSE LET m == CHOOSE x \in S : \A y \in S : x <= y
         IN  <<m>> \o SortedSeq(S \ {m})

----------------------------------------------------------------------------
\* The merge of partial responses.  A merge returns [ok |-> TRUE, value]
\* or, when the code raises, [ok |-> FALSE, exc].

Ok(v) == [ok |-> TRUE, value |-> v, exc |-> None]

Raise(e) == [ok |-> FALSE, value |-> <<>>, exc |-> e]

\* the sequence s without the elements that occur earlier in it
Distinct(s) ==
    LET firstAt(i) == \A j \in 1..(i - 1) : s[j] # s[i]
        kept == SelectSeq([i \in 1..Len(s) |-> i], firstAt)
    IN  [k \in 1..Len(kept) |-> s[kept[k]]]

\* a join that keeps one copy of each citation source
_join_citation_metadatas_distinct(citation_metadatas) ==
    [citation_sources |->
        Distinct(Flatten([i \in 1..Len(citation_metadatas) |->
                             citation_metadatas[i].citation_sources]))]

\* _join_citation_metadatas: the sources of every metadata, in order
_join_citation_metadatas(citation_metadatas) ==
    [citation_sources |->
        Flatten([i \in 1..Len(citation_metadatas) |->
                    citation_metadatas[i].citation_sources])]

\* A dict is the sequence of its <<key, value>> items in insertion order.
\* d[k] = v: a key the dict already has keeps its place.
DictSet(d, k, v) ==
    IF \E i \in 1..Len(d) : d[i][1] = k
    THEN [i \in 1..Len(d) |-> IF d[i][1] = k THEN <<k, v>> ELSE d[i]]
    ELSE Append(d, <<k, v>>)

\* d[k] of a defaultdict(list)
DictGet(d, k) ==
    IF \E i \in 1..Len(d) : d[i][1] = k
    THEN d[CHOOSE i \in 1..Len(d) : d[i][1] = k][2]
    ELSE <<>>

\* a ratings dict whose assignment to an existing key moves it to the end
RECURSIVE RatingsDict_reinserted(_, _)
RatingsDict_reinserted(all, ratings) ==
    IF all = <<>> THEN ratings
    ELSE LET has(item) == item[1] # Head(all).category
         IN  RatingsDict_reinserted(Tail(all),
                 Append(SelectSeq(ratings, has),
                        <<Head(all).category, Head(all).probability>>))

\* ratings[rating.category] = rating.probability, for every rating in order
RECURSIVE RatingsDict(_, _)
RatingsDict(all, ratings) ==
    IF all = <<>> THEN ratings
    ELSE RatingsDict(Tail(all),
             DictSet(ratings, Head(all).category, Head(all).probability))

\* blocked[rating.category].append(rating.blocked), for every rating in order
RECURSIVE BlockedDict(_, _)
BlockedDict(all, blocked) ==
    IF all = <<>> THEN blocked
    ELSE BlockedDict(Tail(all),
             DictSet(blocked, Head(all).category,
                     Append(DictGet(blocked, Head(all).category), Head(all).blocked)))

\* any(flags)
AnyOf(flags) == \E i \in 1..Len(flags) : flags[i]

\* zip(ratings.items(), blocked.values()) after blocked became
\* {category: any(flags)}: the k-th item of one with the k-th value of the
\* other, as many as the shorter has
SafetyList(ratings, blocked) ==
    [k \in 1..(IF Len(ratings) <= Len(blocked) THEN Len(ratings) ELSE Len(blocked)) |->
        [category    |-> ratings[k][1],
         probability |-> ratings[k][2],
         blocked     |-> AnyOf(blocked[k][2])]]

\* _join_safety_ratings_lists
_join_safety_ratings_lists(safety_ratings_lists) ==
    SafetyList(RatingsDict(Flatten(safety_ratings_lists), <<>>),
               BlockedDict(Flatten(safety_ratings_lists), <<>>))

\* a loop that tests only the last merged part before it concatenates
RECURSIVE MergeParts_one_test(_, _)
MergeParts_one_test(merged_parts, parts) ==
    IF parts = <<>> THEN merged_parts
    ELSE LET part == Head(parts)
             prev == merged_parts[Len(merged_parts)]
         IN  IF prev.text = "" THEN
                 MergeParts_one_test(Append(merged_parts, part), Tail(parts))
             ELSE
                 MergeParts_one_test(
                     [merged_parts EXCEPT ![Len(merged_parts)] =
                         [prev EXCEPT !.text = prev.text \o part.text]],
                     Tail(parts))

\* the loop of _join_contents over the parts that follow the first one
RECURSIVE MergeParts(_, _)
MergeParts(merged_parts, parts) ==
    IF parts = <<>> THEN merged_parts
    ELSE LET part == Head(parts)
             prev == merged_parts[Len(merged_parts)]
         IN  IF prev.text = "" THEN
                 MergeParts(Append(merged_parts, part), Tail(parts))
             ELSE IF part.text = "" THEN
                 MergeParts(Append(merged_parts, part), Tail(parts))
             ELSE
                 MergeParts(
                     [merged_parts EXCEPT ![Len(merged_parts)] =
                         [prev EXCEPT !.text = prev.text \o part.text]],
                     Tail(parts))

\* a join of contents that does not assert their roles
_join_contents_unasserted(contents) ==
    LET parts == Flatten([i \in 1..Len(contents) |-> contents[i].parts])
    IN  IF parts = <<>> THEN Raise(IndexError)
        ELSE Ok([role  |-> contents[1].role,
                 parts |-> MergeParts(<<Head(parts)>>, Tail(parts))])

\* _join_contents
_join_contents(contents) ==
    LET role  == contents[1].role
        parts == Flatten([i \in 1..Len(contents) |-> contents[i].parts])
    IN  IF \E i \in 1..Len(contents) : contents[i].role # role THEN
            Raise(AssertionError)
        ELSE IF parts = <<>> THEN
            Raise(IndexError)          \* parts.pop(0) of an empty list
        ELSE
            Ok([role |-> role, parts |-> MergeParts(<<Head(parts)>>, Tail(parts))])

\* the glm.Candidate that _join_candidates builds from its joined content
JoinedCandidate(candidates, content) ==
    IF ~content.ok THEN content
    ELSE Ok([index             |-> candidates[1].index,
             content           |-> content.value,
             finish_reason     |-> candidates[Len(candidates)].finish_reason,
             safety_ratings    |-> _join_safety_ratings_lists(
                 [i \in 1..Len(candidates) |-> candidates[i].safety_ratings]),
             citation_metadata |-> _join_citation_metadatas(
                 [i \in 1..Len(candidates) |-> candidates[i].citation_metadata])])

\* _join_candidates
_join_candidates(candidates) ==
    IF \E i \in 1..Len(candidates) : candidates[i].index # candidates[1].index THEN
        Raise(AssertionError)
    ELSE
        JoinedCandidate(candidates,
            _join_contents([i \in 1..Len(candidates) |-> candidates[i].content]))

\* the list of the joined groups; the first group that fails to join raises
JoinedList(joined) ==
    LET failed == {k \in 1..Len(joined) : ~joined[k].ok}
    IN  IF failed # {} THEN
            joined[CHOOSE k \in failed : \A j \in failed : k <= j]
        ELSE
            Ok([k \in 1..Len(joined) |-> joined[k].value])

\* _join_candidate_lists: group by index, join each group, in index order
_join_candidate_lists(candidate_lists) ==
    LET all        == Flatten(candidate_lists)
        indexes    == SortedSeq({all[i].index : i \in 1..Len(all)})
        group(ix)  == LET has(c) == c.index = ix IN SelectSeq(all, has)
    IN  JoinedList([k \in 1..Len(indexes) |-> _join_candidates(group(indexes[k]))])

\* a merge that keeps the prompt feedback of the last message
_join_prompt_feedbacks_last(prompt_feedbacks) ==
    prompt_feedbacks[Len(prompt_feedbacks)]

\* _join_prompt_feedbacks: always the first prompt feedback
_join_prompt_feedbacks(prompt_feedbacks) == prompt_feedbacks[1]

\* the glm.GenerateContentResponse that _join_chunks builds
JoinedResponse(cs, candidates) ==
    IF ~candidates.ok THEN candidates
    ELSE Ok([candidates      |-> candidates.value,
             prompt_feedback |-> _join_prompt_feedbacks(
                 [i \in 1..Len(cs) |-> cs[i].prompt_feedback])])

\* _join_chunks
_join_chunks(cs) ==
    JoinedResponse(cs, _join_candidate_lists([i \in 1..Len(cs) |-> cs[i].candidates]))

----------------------------------------------------------------------------
\* The messages an upstream produces in this model

NoCitations == [citation_sources |-> <<>>]

TextPart(t) == [kind |-> "text", text |-> t]

CallPart == [kind |-> "function_call", text |-> ""]

Candidate(index, role, parts, finish_reason) ==
    [index             |-> index,
     content           |-> [role |-> role, parts |-> parts],
     finish_reason     |-> finish_reason,
     safety_ratings    |-> <<>>,
     citation_metadata |-> NoCitations]

Message(candidates, block_reason) ==
    [candidates |-> candidates, prompt_feedback |-> [block_reason |-> block_reason]]

\* one candidate, index 0, role "model", one non-empty text part
MsgA == Message(<<Candidate(0, "model", <<TextPart("a")>>, 0)>>, 0)

MsgB == Message(<<Candidate(0, "model", <<TextPart("b")>>, 1)>>, 0)

\* the prompt was blocked: no candidate
MsgBlocked == Message(<<>>, 1)

\* a non-text part
MsgCall == Message(<<Candidate(0, "model", <<CallPart>>, 0)>>, 0)

\* candidate 0 again, with another role: the merge asserts
MsgUser == Message(<<Candidate(0, "user", <<TextPart("c")>>, 0)>>, 0)

\* a second candidate
MsgSecond == Message(<<Candidate(1, "model", <<TextPart("d")>>, 1)>>, 0)

\* two candidates in one message
MsgBoth == Message(<<Candidate(0, "model", <<TextPart("a")>>, 1),
                     Candidate(1, "model", <<TextPart("d")>>, 1)>>, 0)

\* a candidate with no part
MsgNoParts == Message(<<Candidate(0, "model", <<>>, 1)>>, 0)

\* a text part with the empty text
MsgEmpty == Message(<<Candidate(0, "model", <<TextPart("")>>, 0)>>, 0)

\* a text part followed by a non-text part
MsgTextCall == Message(<<Candidate(0, "model", <<TextPart("a"), CallPart>>, 0)>>, 0)

\* two candidates, the higher index first
MsgSwapped == Message(<<Candidate(1, "model", <<TextPart("d")>>, 0),
                        Candidate(0, "model", <<TextPart("a")>>, 0)>>, 0)

Rating(category, probability, blocked) ==
    [category |-> category, probability |-> probability, blocked |-> blocked]

\* a candidate with safety ratings and citation sources
RatedCandidate(index, role, parts, finish_reason, safety_ratings, citation_sources) ==
    [index             |-> index,
     content           |-> [role |-> role, parts |-> parts],
     finish_reason     |-> finish_reason,
     safety_ratings    |-> safety_ratings,
     citation_metadata |-> [citation_sources |-> citation_sources]]

\* ratings of two categories (harm categories 7 and 8), the second blocked
MsgRated1 == Message(<<RatedCandidate(0, "model", <<TextPart("a")>>, 0,
                          <<Rating(7, 1, FALSE), Rating(8, 2, TRUE)>>, <<"s1">>)>>, 0)

\* the same categories in the other order, other probabilities, none blocked
MsgRated2 == Message(<<RatedCandidate(0, "model", <<TextPart("b")>>, 0,
                          <<Rating(8, 1, FALSE), Rating(7, 2, FALSE)>>, <<"s2", "s1">>)>>, 0)

\* a category the others do not rate, and one of theirs
MsgRated3 == Message(<<RatedCandidate(0, "model", <<TextPart("b")>>, 1,
                          <<Rating(9, 1, TRUE), Rating(7, 3, TRUE)>>, <<>>)>>, 0)

\* the messages the merge is applied to on its own
MergeMessages ==
    {MsgA, MsgB, MsgBlocked, MsgCall, MsgUser, MsgSecond, MsgBoth, MsgNoParts,
     MsgEmpty, MsgTextCall, MsgSwapped, MsgRated1, MsgRated2, MsgRated3}

\* the messages a complete (non-streaming) response is drawn from
Messages == {MsgA, MsgB, MsgBlocked, MsgCall, MsgUser, MsgSecond, MsgBoth, MsgNoParts}

\* the messages an upstream yields
StreamMessages == {MsgA, MsgB, MsgBlocked, MsgUser}

\* the code that holds a generator: two of them can interleave their steps
Consumers == {1, 2}

\* The sequences over S of length 1..n
SeqsUpTo(S, n) == UNION {[1..k -> S] : k \in 1..n}

----------------------------------------------------------------------------
\* The upstream iterator: its messages, how it ends (StopIteration or an
\* exception), and pos, the number of next() calls made on it.

NoIterator == [none |-> TRUE, items |-> <<>>, ending |-> StopIteration, pos |-> 0]

Iterator(items, ending) ==
    [none |-> FALSE, items |-> items, ending |-> ending, pos |-> 0]

\* next(iterator): the item or the exception, and the iterator afterwards.
\* An iterator that has ended keeps raising StopIteration; next(None)
\* raises TypeError.
next(it) ==
    LET it2 == [it EXCEPT !.pos = it.pos + 1]
    IN  IF it.none THEN
            [ok |-> FALSE, value |-> <<>>, exc |-> TypeError, it |-> it]
        ELSE IF it.pos < Len(it.items) THEN
            [ok |-> TRUE, value |-> it.items[it.pos + 1], exc |-> None, it |-> it2]
        ELSE IF it.pos = Len(it.items) THEN
            [ok |-> FALSE, value |-> <<>>, exc |-> it.ending, it |-> it2]
        ELSE
            [ok |-> FALSE, value |-> <<>>, exc |-> StopIteration, it |-> it2]

----------------------------------------------------------------------------
\* BaseGenerateContentResponse

\* __init__ that latches no error for a blocked prompt
BaseGenerateContentResponse_unlatched(d, res, chs) ==
    [done |-> d, result |-> res, chunks |-> chs, error |-> None]

\* __init__
BaseGenerateContentResponse(d, res, chs) ==
    [done   |-> d,
     result |-> res,
     chunks |-> chs,
     error  |-> IF res.prompt_feedback.block_reason # 0
                THEN BlockedPromptException ELSE None]

\* candidates without its guard on self._done
candidates_unguarded(self) == Ok(self.result.candidates)

\* the candidates property
candidates(self) ==
    IF ~self.done THEN Raise(IncompleteIterationError)
    ELSE Ok(self.result.candidates)

\* the parts property
parts(self) ==
    LET cands == candidates(self)
    IN  IF ~cands.ok THEN cands
        ELSE IF Len(cands.value) = 0 THEN Raise(ValueError)
        ELSE IF Len(cands.value) > 1 THEN Raise(ValueError)
        ELSE Ok(cands.value[1].content.parts)

\* the text property
text(self) ==
    LET ps == parts(self)
    IN  IF ~ps.ok THEN ps
        ELSE IF Len(ps.value) > 1 THEN Raise(ValueError)
        ELSE IF Len(ps.value) = 0 THEN Raise(IndexError)     \* parts[0]
        ELSE IF ps.value[1].kind # "text" THEN Raise(ValueError)
        ELSE Ok(ps.value[1].text)

\* the prompt_feedback property
prompt_feedback(self) == Ok(self.result.prompt_feedback)

\* The four properties read self and assign nothing: they are operators of
\* the accumulator, and reading one is no step of the state machine.

----------------------------------------------------------------------------
\* GenerateContentResponse

\* from_response that leaves the response pending
from_response_pending(response) ==
    [done   |-> FALSE,
     result |-> response,
     chunks |-> <<response>>,
     error  |-> IF response.prompt_feedback.block_reason # 0
                THEN BlockedPromptException ELSE None]

\* from_response
from_response(response) ==
    BaseGenerateContentResponse(TRUE, response, <<response>>)

\* from_iterator: the accumulator and the iterator after the first pull
\* (the caller gets no accumulator when that pull raises)
from_iterator(it) ==
    LET response == next(it)
    IN  [self |-> BaseGenerateContentResponse(FALSE, response.value, <<response.value>>),
         it   |-> response.it]

\* no answer of the upstream
NoAnswer == [ok |-> FALSE, value |-> <<>>, exc |-> None, it |-> NoIterator]

\* A generator object made by __iter__.
\*   pc      "none" (no generator made), "new" (made, not advanced), "loop"
\*           (suspended at the yield of the count() loop), "replay" (suspended
\*           at the yield of the done loop), "returned", "raised"; for a
\*           generator of __aiter__ also "await" (suspended in the await of
\*           the look-ahead) and "seed" (suspended in the await that fills
\*           an empty buffer)
\*   n       the loop variable n, or the number of chunks replayed
\*   yielded the steps yielded so far; doneAt and pullsAt: self._done and the
\*           number of upstream pulls made so far, at each of these yields
\*   exc     the exception it raised
\*   pend    the upstream exception one of its own pulls raised
\*   pulls   the number of upstream pulls it made
\*   first   made before any generator was advanced and before any resolve()
\*   solo    no other generator was advanced and no resolve() ran since it
\*           was made
NoGenerator ==
    [pc |-> "none", n |-> 0, yielded |-> <<>>, doneAt |-> <<>>, pullsAt |-> <<>>,
     exc |-> None, pend |-> None, pulls |-> 0, first |-> FALSE, solo |-> FALSE]

NewGenerator(isFirst) ==
    [NoGenerator EXCEPT !.pc = "new", !.first = isFirst, !.solo = TRUE]

Live(g) == g.pc \in {"new", "loop", "replay"}

\* suspended in an await of the upstream
Awaiting(g) == g.pc \in {"await", "seed"}

\* a yield of the accumulated result instead of the step's own message
Yield_accumulated(self, it, g, pc, n, item) ==
    [self |-> self, it |-> it,
     g    |-> [g EXCEPT !.pc = pc, !.n = n,
                        !.yielded = Append(g.yielded,
                            [done |-> TRUE, result |-> self.result,
                             chunks |-> <<self.result>>, error |-> None]),
                        !.doneAt = Append(g.doneAt, self.done),
                        !.pullsAt = Append(g.pullsAt, it.pos)]]

\* yield GenerateContentResponse.from_response(item)
Yield(self, it, g, pc, n, item) ==
    [self |-> self, it |-> it,
     g    |-> [g EXCEPT !.pc = pc, !.n = n,
                        !.yielded = Append(g.yielded, from_response(item)),
                        !.doneAt = Append(g.doneAt, self.done),
                        !.pullsAt = Append(g.pullsAt, it.pos)]]

Return(self, it, g) ==
    [self |-> self, it |-> it, g |-> [g EXCEPT !.pc = "returned"]]

RaiseFrom(self, it, g, e) ==
    [self |-> self, it |-> it, g |-> [g EXCEPT !.pc = "raised", !.exc = e]]

\* the done branch of __iter__: the next buffered chunk, or the return
Replay(self, it, g, k) ==
    IF k < Len(self.chunks) THEN Yield(self, it, g, "replay", k + 1, self.chunks[k + 1])
    ELSE Return(self, it, g)

\* item = self._chunks[-1]: the newest chunk instead of chunk n
YieldNth_last(self, it, g, n) ==
    IF n + 1 > Len(self.chunks) THEN RaiseFrom(self, it, g, IndexError)
    ELSE Yield(self, it, g, "loop", n, self.chunks[Len(self.chunks)])

\* item = self._chunks[n], then the yield
YieldNth(self, it, g, n) ==
    IF n + 1 > Len(self.chunks) THEN RaiseFrom(self, it, g, IndexError)
    ELSE Yield(self, it, g, "loop", n, self.chunks[n + 1])

\* an else branch that replaces the buffer by the item
Buffered_reset(self, it, item, joined) ==
    LET reset == [self EXCEPT !.chunks = <<item>>]
    IN  IF joined.ok
        THEN [self |-> [reset EXCEPT !.result = joined.value],
              it |-> it, exc |-> None, pend |-> None]
        ELSE [self |-> reset, it |-> it, exc |-> joined.exc, pend |-> None]

\* the else branch of the try statement: the item is buffered, then merged.
\* A failed merge leaves the item buffered and the result as it was.
Buffered(self, it, item, joined) ==
    LET appended == [self EXCEPT !.chunks = Append(self.chunks, item)]
    IN  IF joined.ok
        THEN [self |-> [appended EXCEPT !.result = joined.value],
              it |-> it, exc |-> None, pend |-> None]
        ELSE [self |-> appended, it |-> it, exc |-> joined.exc, pend |-> None]

\* a try statement that leaves self._done false at the end of the stream
Pulled_not_done(self, item) ==
    IF item.ok THEN
        Buffered(self, item.it, item.value, _join_chunks(<<self.result, item.value>>))
    ELSE IF item.exc = StopIteration THEN
        [self |-> self, it |-> item.it, exc |-> None, pend |-> None]
    ELSE
        [self |-> [self EXCEPT !.error = item.exc, !.done = TRUE],
         it |-> item.it, exc |-> None, pend |-> item.exc]

\* a try statement that latches a new exception in place of the upstream's
Pulled_wrapped(self, item) ==
    IF item.ok THEN
        Buffered(self, item.it, item.value, _join_chunks(<<self.result, item.value>>))
    ELSE IF item.exc = StopIteration THEN
        [self |-> [self EXCEPT !.done = TRUE], it |-> item.it, exc |-> None,
         pend |-> None]
    ELSE
        [self |-> [self EXCEPT !.error = "RuntimeError", !.done = TRUE],
         it |-> item.it, exc |-> None, pend |-> item.exc]

\* the try statement of __iter__, given what next(self._iterator) did
Pulled(self, item) ==
    IF item.ok THEN
        Buffered(self, item.it, item.value, _join_chunks(<<self.result, item.value>>))
    ELSE IF item.exc = StopIteration THEN
        [self |-> [self EXCEPT !.done = TRUE], it |-> item.it, exc |-> None,
         pend |-> None]
    ELSE
        [self |-> [self EXCEPT !.error = item.exc, !.done = TRUE],
         it |-> item.it, exc |-> None, pend |-> item.exc]

\* the look-ahead of __iter__: the pull and what each branch assigns
LookAhead(self, it) == Pulled(self, next(it))

\* the rest of the loop body after the look-ahead la
AfterLookAhead(g, n, la) ==
    LET g2 == [g EXCEPT !.pulls = g.pulls + 1,
                        !.pend = IF la.pend # None THEN la.pend ELSE g.pend]
    IN  IF la.exc # None THEN RaiseFrom(la.self, la.it, g2, la.exc)
        ELSE YieldNth(la.self, la.it, g2, n)

\* a loop body that pulls only when the buffer holds no chunk n: no look-ahead
LoopBody_no_lookahead(self, it, g, n) ==
    IF self.error # None THEN RaiseFrom(self, it, g, self.error)
    ELSE IF n >= Len(self.chunks) THEN
        IF self.done THEN Return(self, it, g)
        ELSE AfterLookAhead(g, n, LookAhead(self, it))
    ELSE YieldNth(self, it, g, n)

\* a loop body that tests self._error only after its look-ahead
LoopBody_late_raise(self, it, g, n) ==
    IF n >= Len(self.chunks) - 1 /\ ~self.done THEN
        AfterLookAhead(g, n, LookAhead(self, it))
    ELSE IF self.error # None THEN RaiseFrom(self, it, g, self.error)
    ELSE IF n >= Len(self.chunks) - 1 THEN Return(self, it, g)
    ELSE YieldNth(self, it, g, n)

\* one iteration of the count() loop of __iter__, up to its yield
LoopBody(self, it, g, n) ==
    IF self.error # None THEN RaiseFrom(self, it, g, self.error)
    ELSE IF n >= Len(self.chunks) - 1 THEN
        IF self.done THEN Return(self, it, g)
        ELSE AfterLookAhead(g, n, LookAhead(self, it))
    ELSE YieldNth(self, it, g, n)

\* lines 277-278, run by a new generator that finds the buffer empty: the
\* message pulled is buffered and not merged, then the count() loop starts.
\* A StopIteration of that pull leaves the generator as RuntimeError, any
\* other exception as itself; neither is latched.
Seeded(self, g, item) ==
    IF item.ok THEN
        LoopBody([self EXCEPT !.chunks = Append(self.chunks, item.value)], item.it,
                 [g EXCEPT !.pulls = g.pulls + 1], 0)
    ELSE IF item.exc = StopIteration THEN
        RaiseFrom(self, item.it, [g EXCEPT !.pulls = g.pulls + 1], RuntimeError)
    ELSE
        RaiseFrom(self, item.it,
                  [g EXCEPT !.pulls = g.pulls + 1, !.pend = item.exc], item.exc)

\* next(g) on a generator of __iter__: runs it to its next yield, its return
\* or its raise.  A new generator tests self._done once and takes the done
\* branch or, after lines 277-278, the count() loop.  (Both constructors
\* buffer one message, so no accumulator they make has an empty buffer.)
Resume(self, it, g) ==
    IF (g.pc = "new" /\ self.done) \/ g.pc = "replay" THEN
        Replay(self, it, g, IF g.pc = "new" THEN 0 ELSE g.n)
    ELSE IF g.pc = "new" /\ Len(self.chunks) = 0 THEN
        Seeded(self, g, next(it))
    ELSE
        LoopBody(self, it, g, IF g.pc = "new" THEN 0 ELSE g.n + 1)

\* for _ in self: pass
RECURSIVE Exhaust(_, _, _)
Continue(r) == IF Live(r.g) THEN Exhaust(r.self, r.it, r.g) ELSE r

Exhaust(self, it, g) == Continue(Resume(self, it, g))

\* a resolve that advances its generator once
resolve_one_step(self, it) ==
    IF self.done THEN [self |-> self, it |-> it, g |-> NoGenerator]
    ELSE Resume(self, it, NewGenerator(FALSE))

\* resolve: the generator it ran is returned with the state, "none" when
\* it returned at once
resolve(self, it) ==
    IF self.done THEN [self |-> self, it |-> it, g |-> NoGenerator]
    ELSE Exhaust(self, it, NewGenerator(FALSE))

----------------------------------------------------------------------------
\* AsyncGenerateContentResponse.  The upstream is an async iterator, which
\* ends with StopAsyncIteration.  The generator of __aiter__ yields steps of
\* the synchronous class (lines 340 and 370), as __iter__ does; it suspends
\* at its yields and in its two awaits of the upstream (lines 345 and 358),
\* where the event loop runs the other callers until the upstream answers.

\* await anext(iterator), the upstream answering at once; anext(None)
\* raises TypeError
anext(it) ==
    LET it2 == [it EXCEPT !.pos = it.pos + 1]
    IN  IF it.none THEN
            [ok |-> FALSE, value |-> <<>>, exc |-> TypeError, it |-> it]
        ELSE IF it.pos < Len(it.items) THEN
            [ok |-> TRUE, value |-> it.items[it.pos + 1], exc |-> None, it |-> it2]
        ELSE IF it.pos = Len(it.items) THEN
            [ok |-> FALSE, value |-> <<>>, exc |-> it.ending, it |-> it2]
        ELSE
            [ok |-> FALSE, value |-> <<>>, exc |-> StopAsyncIteration, it |-> it2]

\* from_aiterator
from_aiterator(it) ==
    LET response == anext(it)
    IN  [self |-> BaseGenerateContentResponse(FALSE, response.value, <<response.value>>),
         it   |-> response.it]

\* a try statement that catches StopIteration, as the synchronous one does
AsyncPulled_sync_stop(self, item) ==
    IF item.ok THEN
        Buffered(self, item.it, item.value, _join_chunks(<<self.result, item.value>>))
    ELSE IF item.exc = StopIteration THEN
        [self |-> [self EXCEPT !.done = TRUE], it |-> item.it, exc |-> None,
         pend |-> None]
    ELSE
        [self |-> [self EXCEPT !.error = item.exc, !.done = TRUE],
         it |-> item.it, exc |-> None, pend |-> item.exc]

\* the try statement of __aiter__, given what await anext(self._iterator) did
AsyncPulled(self, item) ==
    IF item.ok THEN
        Buffered(self, item.it, item.value, _join_chunks(<<self.result, item.value>>))
    ELSE IF item.exc = StopAsyncIteration THEN
        [self |-> [self EXCEPT !.done = TRUE], it |-> item.it, exc |-> None,
         pend |-> None]
    ELSE
        [self |-> [self EXCEPT !.error = item.exc, !.done = TRUE],
         it |-> item.it, exc |-> None, pend |-> item.exc]

\* the generator calls anext(self._iterator) and awaits it, in the
\* look-ahead of iteration n ("await") or at line 345 ("seed"); anext(None)
\* makes no call of an upstream
Called(self, it, g, site, n) ==
    [self |-> self,
     it   |-> IF it.none THEN it ELSE [it EXCEPT !.pos = it.pos + 1],
     g    |-> [g EXCEPT !.pc = site, !.n = n, !.pulls = g.pulls + 1]]

\* the head of one iteration of the count() loop of __aiter__ (lines
\* 348-358): up to the raise, the return, the yield of a buffered chunk, or
\* the call of the look-ahead
AsyncLoopHead(self, it, g, n) ==
    IF self.error # None THEN RaiseFrom(self, it, g, self.error)
    ELSE IF n >= Len(self.chunks) - 1 THEN
        IF self.done THEN Return(self, it, g)
        ELSE Called(self, it, g, "await", n)
    ELSE YieldNth(self, it, g, n)

\* await anext(g) on a generator that is not suspended in an await: the
\* generator runs to its next yield, return or raise, or to its next call of
\* the upstream
AsyncBegin(self, it, g) ==
    IF (g.pc = "new" /\ self.done) \/ g.pc = "replay" THEN
        Replay(self, it, g, IF g.pc = "new" THEN 0 ELSE g.n)
    ELSE IF g.pc = "new" /\ Len(self.chunks) = 0 THEN
        Called(self, it, g, "seed", 0)
    ELSE
        AsyncLoopHead(self, it, g, IF g.pc = "new" THEN 0 ELSE g.n + 1)

\* the rest of the loop body (lines 359-370) once the look-ahead la is known
AsyncAfterLookAhead(g, la) ==
    LET g2 == [g EXCEPT !.pend = IF la.pend # None THEN la.pend ELSE g.pend]
    IN  IF la.exc # None THEN RaiseFrom(la.self, la.it, g2, la.exc)
        ELSE YieldNth(la.self, la.it, g2, g.n)

\* line 345 once its await is answered: the message is buffered and not
\* merged, and the count() loop starts.  A StopAsyncIteration leaves the
\* generator as RuntimeError, any other exception as itself; neither is
\* latched.
AsyncSeeded(self, g, item) ==
    IF item.ok THEN
        AsyncLoopHead([self EXCEPT !.chunks = Append(self.chunks, item.value)],
                      item.it, g, 0)
    ELSE IF item.exc = StopAsyncIteration THEN
        RaiseFrom(self, item.it, g, RuntimeError)
    ELSE
        RaiseFrom(self, item.it, [g EXCEPT !.pend = item.exc], item.exc)

\* the upstream answers the await of generator g with item: the generator
\* runs on to its next yield, return or raise, or to its next call
AsyncAnswered(self, g, item) ==
    IF g.pc = "seed" THEN AsyncSeeded(self, g, item)
    ELSE AsyncAfterLookAhead(g, AsyncPulled(self, item))

\* the answer of the call just issued on it, the upstream having refused
\* `refused` calls before
AnswerOf(it, refused) ==
    IF it.none THEN anext(it)
    ELSE [anext([it EXCEPT !.pos = it.pos - 1 - refused]) EXCEPT !.it = it]

\* await anext(g) with an upstream that answers every call before anything
\* else runs
RECURSIVE AsyncSettle(_)
AsyncSettle(r) ==
    IF Awaiting(r.g) THEN AsyncSettle(AsyncAnswered(r.self, r.g, AnswerOf(r.it, 0)))
    ELSE r

AsyncResume(self, it, g) == AsyncSettle(AsyncBegin(self, it, g))

\* AsyncGenerateContentResponse.resolve: a plain method whose for statement
\* calls iter(self); the class defines __aiter__ and no __iter__, so the
\* statement raises TypeError before any code of the generator runs
async_resolve(self, it) ==
    IF self.done THEN [self |-> self, it |-> it, g |-> NoGenerator]
    ELSE [self |-> self, it |-> it,
          g |-> [NoGenerator EXCEPT !.pc = "raised", !.exc = TypeError]]

----------------------------------------------------------------------------
\* The state machine: one accumulator and its caller

Self == [done |-> done, result |-> result, chunks |-> chunks, error |-> error]

\* an operation, the consumer that made it (0: none), how it ended ("value",
\* "yield", "return", "raise"), the exception raised, and for resolve() the
\* upstream exception it pulled and the pulls it made
Last(op, c, kind, exc, pend, pulls) ==
    [op |-> op, consumer |-> c, kind |-> kind, exc |-> exc, pend |-> pend,
     pulls |-> pulls]

SetSelf(self) ==
    /\ done' = self.done
    /\ error' = self.error
    /\ result' = self.result
    /\ chunks' = self.chunks

\* GenerateContentResponse.from_iterator(upstream)
InitFromIterator ==
    \E items \in SeqsUpTo(StreamMessages, MaxLen),
       ending \in {StopIteration} \cup UpstreamErrors :
        LET made == from_iterator(Iterator(items, ending))
        IN  /\ input = [ctor |-> "from_iterator", items |-> items, ending |-> ending]
            /\ iterator = made.it
            /\ done = made.self.done
            /\ error = made.self.error
            /\ result = made.self.result
            /\ chunks = made.self.chunks
            /\ last = Last("from_iterator", 0, "value", None, None, 1)

\* GenerateContentResponse.from_response(message)
InitFromResponse ==
    \E m \in Messages :
        LET made == from_response(m)
        IN  /\ input = [ctor |-> "from_response", items |-> <<m>>, ending |-> None]
            /\ iterator = NoIterator
            /\ done = made.done
            /\ error = made.error
            /\ result = made.result
            /\ chunks = made.chunks
            /\ last = Last("from_response", 0, "value", None, None, 0)

\* no call of an upstream is left unanswered: next() blocks its caller
NoAwaits ==
    [kind |-> "none", answer |-> [c \in Consumers |-> NoAnswer], refused |-> 0,
     overlapped |-> FALSE]

Init ==
    /\ InitFromIterator \/ InitFromResponse
    /\ gens = [c \in Consumers |-> NoGenerator]
    /\ touched = FALSE
    /\ awaits = NoAwaits

\* the other consumers' running generators are no longer alone
Interleaved(c) ==
    [d \in Consumers |->
        IF d # c /\ (Live(gens[d]) \/ Awaiting(gens[d]))
        THEN [gens[d] EXCEPT !.solo = FALSE] ELSE gens[d]]

\* iter(response): consumer c makes a generator (and drops the one it had);
\* none of the generator's code runs yet
Iter(c) ==
    /\ gens' = [gens EXCEPT ![c] = NewGenerator(~touched)]
    /\ last' = Last("iter", c, "value", None, None, 0)
    /\ UNCHANGED <<input, iterator, done, error, result, chunks, touched, awaits>>

\* the state after consumer c's generator ran to r
Advanced(c, r) ==
    /\ SetSelf(r.self)
    /\ iterator' = r.it
    /\ gens' = [Interleaved(c) EXCEPT ![c] = r.g]
    /\ last' = Last("next", c,
                    CASE r.g.pc = "returned" -> "return"
                      [] r.g.pc = "raised"   -> "raise"
                      [] OTHER               -> "yield",
                    r.g.exc, None, 0)

\* next(g) on the generator of consumer c
Advance(c) ==
    /\ Live(gens[c])
    /\ Advanced(c, Resume(Self, iterator, gens[c]))
    /\ touched' = TRUE
    /\ UNCHANGED <<input, awaits>>

\* the state after resolve() ran to r
Resolved(r) ==
    /\ SetSelf(r.self)
    /\ iterator' = r.it
    /\ last' = Last("resolve", 0, IF r.g.pc = "raised" THEN "raise" ELSE "return",
                    r.g.exc, r.g.pend, r.g.pulls)

\* response.resolve()
Resolve ==
    /\ Resolved(resolve(Self, iterator))
    /\ gens' = Interleaved(0)
    /\ touched' = TRUE
    /\ UNCHANGED <<input, awaits>>

Next ==
    \/ \E c \in Consumers : Iter(c)
    \/ \E c \in Consumers : Advance(c)
    \/ Resolve

Spec == Init /\ [][Next]_vars

----------------------------------------------------------------------------
\* The merge on its own: messages are joined one at a time, as lines 298-299
\* of __iter__ do, with no iterator around them.  chunks lists the messages
\* given so far and result is what they merged into; a join that raises
\* leaves result as it was, and the next message is joined to that result.
\* last tells how the latest join ended, the result before it (prev), the
\* message joined (item), and whether some join so far has raised (failed).

MergeInit ==
    \E m \in MergeMessages :
        /\ input = [ctor |-> "_join_chunks", items |-> <<m>>, ending |-> None]
        /\ iterator = NoIterator
        /\ done = FALSE
        /\ error = None
        /\ result = m
        /\ chunks = <<m>>
        /\ gens = [c \in Consumers |-> NoGenerator]
        /\ touched = FALSE
        /\ awaits = NoAwaits
        /\ last = [op |-> "none", kind |-> "value", exc |-> None, prev |-> m,
                   item |-> m, failed |-> FALSE]

\* the state after the join of result and m ended as joined
Joined(m, joined) ==
    /\ chunks' = Append(chunks, m)
    /\ result' = IF joined.ok THEN joined.value ELSE result
    /\ last' = [op     |-> "_join_chunks",
                kind   |-> IF joined.ok THEN "value" ELSE "raise",
                exc    |-> joined.exc,
                prev   |-> result,
                item   |-> m,
                failed |-> last.failed \/ ~joined.ok]

\* self._chunks.append(m); self._result = _join_chunks([self._result, m])
Join(m) ==
    /\ Len(chunks) < MaxChunks
    /\ Joined(m, _join_chunks(<<result, m>>))
    /\ UNCHANGED <<input, iterator, done, error, gens, touched, awaits>>

MergeNext == \E m \in MergeMessages : Join(m)

SpecMerge == MergeInit /\ [][MergeNext]_vars

----------------------------------------------------------------------------
\* The state machine of an AsyncGenerateContentResponse and its callers: the
\* variables hold the async accumulator, and gens the async generators, one
\* per task.  awaits holds
\*   kind       what the upstream is: "generator", an async generator, which
\*              runs one anext() at a time and refuses a call made while
\*              another is unanswered with RuntimeError, at once and without
\*              running; or "iterator", an object whose __anext__ is a
\*              coroutine function: every call runs on its own, takes the
\*              next message when it is made, and the calls end in any order
\*   answer     for each task suspended in an await of the upstream, the
\*              answer its call will get
\*   refused    the number of calls the upstream has refused
\*   overlapped some task advanced its generator while another was suspended
\*              in an await of the upstream

UpstreamKinds == {"generator", "iterator"}

\* await AsyncGenerateContentResponse.from_aiterator(upstream)
InitFromAIterator ==
    \E items \in SeqsUpTo(StreamMessages, MaxLen),
       ending \in {StopAsyncIteration} \cup UpstreamErrors,
       kind \in UpstreamKinds :
        LET made == from_aiterator(Iterator(items, ending))
        IN  /\ input = [ctor |-> "from_aiterator", items |-> items, ending |-> ending]
            /\ iterator = made.it
            /\ done = made.self.done
            /\ error = made.self.error
            /\ result = made.self.result
            /\ chunks = made.self.chunks
            /\ last = Last("from_aiterator", 0, "value", None, None, 1)
            /\ awaits = [NoAwaits EXCEPT !.kind = kind]

\* the async from_response (lines 327-334) is the synchronous one
AsyncInitFromResponse == InitFromResponse /\ awaits = NoAwaits

AsyncInit ==
    /\ InitFromAIterator \/ AsyncInitFromResponse
    /\ gens = [c \in Consumers |-> NoGenerator]
    /\ touched = FALSE

\* another task than c is suspended in an await of the upstream
Busy(c) == \E d \in Consumers : d # c /\ Awaiting(gens[d])

\* the state after the generator of task c ran to its yield, return or
\* raise r, the upstream having refused `refusals` calls on the way
AsyncAdvanced(c, r, refusals) ==
    /\ Advanced(c, r)
    /\ awaits' = [awaits EXCEPT !.answer[c] = NoAnswer,
                                !.refused = awaits.refused + refusals,
                                !.overlapped = awaits.overlapped \/ Busy(c)]

\* the generator of task c has issued a call of the upstream (r.it counts
\* it) and the upstream refuses it: the await raises RuntimeError at once
\* and the generator runs on
AsyncRefused(c, r) ==
    AsyncAdvanced(c, AsyncAnswered(r.self, r.g,
                         [ok |-> FALSE, value |-> <<>>, exc |-> RuntimeError,
                          it |-> r.it]), 1)

\* the generator of task c has issued a call of the upstream and is
\* suspended until the call is answered
AsyncSuspended(c, r) ==
    /\ SetSelf(r.self)
    /\ iterator' = r.it
    /\ gens' = [Interleaved(c) EXCEPT ![c] = r.g]
    /\ last' = Last("next", c, "await", None, None, 0)
    /\ awaits' = [awaits EXCEPT !.answer[c] = AnswerOf(r.it, awaits.refused),
                                !.overlapped = awaits.overlapped \/ Busy(c)]

\* the call just issued on it is answered without a suspension: anext(None)
\* raises at once, and so does an async generator that has ended (every
\* call before this one is answered, the ending among them)
AtOnce(it) ==
    \/ it.none
    \/ /\ awaits.kind = "generator"
       /\ it.pos - 1 - awaits.refused > Len(it.items)

\* the generator of task c has issued a call that is answered at once, and
\* runs on in the same step
AsyncAnsweredAtOnce(c, r) ==
    AsyncAdvanced(c, AsyncAnswered(r.self, r.g, AnswerOf(r.it, awaits.refused)), 0)

\* the state after the generator of task c ran to r: at a yield, a return
\* or a raise, or at a call of the upstream
AsyncRan(c, r) ==
    IF ~Awaiting(r.g) THEN AsyncAdvanced(c, r, 0)
    ELSE IF r.it.none THEN AsyncAnsweredAtOnce(c, r)
    ELSE IF awaits.kind = "generator" /\ Busy(c) THEN AsyncRefused(c, r)
    ELSE IF AtOnce(r.it) THEN AsyncAnsweredAtOnce(c, r)
    ELSE AsyncSuspended(c, r)

\* aiter(response): task c makes a generator object, as iter(response)
\* does; a task suspended in an await makes none
AsyncIter(c) ==
    /\ ~Awaiting(gens[c])
    /\ Iter(c)

\* await anext(g) on the generator of task c, up to the point where the
\* task gets its step or is suspended in an await of the upstream
AsyncAdvance(c) ==
    /\ Live(gens[c])
    /\ AsyncRan(c, AsyncBegin(Self, iterator, gens[c]))
    /\ touched' = TRUE
    /\ UNCHANGED input

\* the upstream answers the call of task c, and the generator runs on
AsyncAnswer(c) ==
    /\ Awaiting(gens[c])
    /\ AsyncRan(c, AsyncAnswered(Self, gens[c],
                       [awaits.answer[c] EXCEPT !.it = iterator]))
    /\ UNCHANGED <<input, touched>>

\* response.resolve() on the async accumulator
AsyncResolve ==
    /\ Resolved(async_resolve(Self, iterator))
    /\ gens' = Interleaved(0)
    /\ touched' = TRUE
    /\ UNCHANGED <<input, awaits>>

AsyncNext ==
    \/ \E c \in Consumers : AsyncIter(c)
    \/ \E c \in Consumers : AsyncAdvance(c)
    \/ \E c \in Consumers : AsyncAnswer(c)
    \/ AsyncResolve

SpecAsync == AsyncInit /\ [][AsyncNext]_vars

----------------------------------------------------------------------------
\* What the claims speak of

FromIterator == input.ctor = "from_iterator"

FromResponse == input.ctor = "from_response"

\* the messages of the upstream (or the complete response)
Items == input.items

\* the first message's prompt feedback has a nonzero block reason
FirstBlocked == Items[1].prompt_feedback.block_reason # 0

\* a step that wraps message m alone
Wraps(step, m) == step.done /\ step.result = m /\ step.chunks = <<m>>

\* s is a pass over exactly the messages ms, one step per message
StepsOf(s, ms) == Len(s) = Len(ms) /\ \A k \in 1..Len(ms) : Wraps(s[k], ms[k])

\* one candidate, index 0, with one non-empty text part
OneText(m) ==
    /\ Len(m.candidates) = 1
    /\ m.candidates[1].index = 0
    /\ Len(m.candidates[1].content.parts) = 1
    /\ m.candidates[1].content.parts[1].kind = "text"
    /\ m.candidates[1].content.parts[1].text # ""

\* the texts of messages of one text part each, end to end
RECURSIVE TextOf(_)
TextOf(ms) ==
    IF ms = <<>> THEN ""
    ELSE Head(ms).candidates[1].content.parts[1].text \o TextOf(Tail(ms))

Generators == {gens[c] : c \in Consumers}

\* the candidates of message m that have index ix
WithIndex(m, ix) == LET has(c) == c.index = ix IN SelectSeq(m.candidates, has)

\* message m has a candidate of index ix
Mentions(m, ix) == WithIndex(m, ix) # <<>>

\* the candidate indexes the messages ms mention
IndexesOf(ms) ==
    UNION {{ms[k].candidates[i].index : i \in 1..Len(ms[k].candidates)} :
              k \in 1..Len(ms)}

\* the candidates of index ix in the messages ms, in arrival order
Mentioned(ms, ix) == Flatten([k \in 1..Len(ms) |-> WithIndex(ms[k], ix)])

\* the candidate indexes that both sides of the latest join mention
Met == {ix \in IndexesOf(<<last.prev>>) : Mentions(last.item, ix)}

\* the latest join returned a result
JoinedOk == last.op = "_join_chunks" /\ last.kind = "value"

\* every join so far returned a result
AllJoined == last.op = "_join_chunks" /\ ~last.failed

\* the latest join met contents of different roles for some candidate index
JoinRolesDiffer ==
    \E ix \in Met :
        WithIndex(last.prev, ix)[1].content.role #
            WithIndex(last.item, ix)[1].content.role

\* the left fold of the merge over a buffer: the first message as it is,
\* every later one joined to what the ones before it gave
FoldStep(prev, m) == IF prev.ok THEN _join_chunks(<<prev.value, m>>) ELSE prev

RECURSIVE FoldChunks(_)
FoldChunks(ms) ==
    IF Len(ms) = 1 THEN Ok(ms[1])
    ELSE FoldStep(FoldChunks(SubSeq(ms, 1, Len(ms) - 1)), ms[Len(ms)])



\* the parts of index ix: accumulated before the latest join, in the message
\* joined, and accumulated after it
AccParts(ix) == WithIndex(last.prev, ix)[1].content.parts

NextParts(ix) == WithIndex(last.item, ix)[1].content.parts

OutParts(ix) == WithIndex(result, ix)[1].content.parts

\* a text part meets a text part at the latest join of index ix
TextMeetsText(ix) ==
    /\ AccParts(ix) # <<>> /\ NextParts(ix) # <<>>
    /\ AccParts(ix)[Len(AccParts(ix))].kind = "text"
    /\ NextParts(ix)[1].kind = "text"

\* a non-text part is on either side of the latest join of index ix
NonTextMeets(ix) ==
    /\ AccParts(ix) # <<>> /\ NextParts(ix) # <<>>
    /\ \/ AccParts(ix)[Len(AccParts(ix))].kind # "text"
       \/ NextParts(ix)[1].kind # "text"

----------------------------------------------------------------------------
\* C1: while done is false, candidates, parts and text each raise
\* IncompleteIterationError; when done is true, on the accumulator and on
\* every step an iteration yields, candidates returns the candidates of the
\* accumulated result.
C1_IncompleteGuard ==
    /\ ~done => /\ candidates(Self) = Raise(IncompleteIterationError)
                /\ parts(Self) = Raise(IncompleteIterationError)
                /\ text(Self) = Raise(IncompleteIterationError)
    /\ done => candidates(Self) = Ok(result.candidates)
    /\ \A g \in Generators : \A k \in 1..Len(g.yielded) :
          candidates(g.yielded[k]) = Ok(g.yielded[k].result.candidates)

\* a pass has yielded a step of a stream that is still pending
C1_Witness ==
    /\ ~done /\ Len(chunks) = 2
    /\ last.op = "next" /\ last.kind = "yield"
    /\ text(Self).exc = IncompleteIterationError

\* C2: over an error-free upstream whose first message is not blocked and
\* whose messages each carry one candidate (index 0, one role) with one
\* non-empty text part, text raises IncompleteIterationError right after
\* from_iterator, resolve() returns with done true, and from then on text
\* returns the texts of all the messages in arrival order.
C2_Pre ==
    /\ FromIterator
    /\ input.ending = StopIteration
    /\ ~FirstBlocked
    /\ \A k \in 1..Len(Items) :
          /\ OneText(Items[k])
          /\ Items[k].candidates[1].content.role = Items[1].candidates[1].content.role

C2_ResolveThenText ==
    C2_Pre =>
        /\ last.op = "from_iterator" => text(Self) = Raise(IncompleteIterationError)
        /\ last.op = "resolve" => last.kind = "return" /\ done
        /\ done => text(Self) = Ok(TextOf(Items))

\* resolve() has drained a stream of two different texts
C2_Witness ==
    /\ C2_Pre /\ last.op = "resolve" /\ last.pulls = 2
    /\ Items = <<MsgA, MsgB>>
    /\ text(Self) = Ok("ab")

\* C3: an accumulator made by from_response is done at once, buffers
\* exactly its message, has it as its result and never pulls an upstream;
\* a pass over it yields one step, that message, then returns; and text
\* returns the text of a message of one candidate with one text part.
C3_FromResponse ==
    FromResponse =>
        /\ done /\ chunks = <<Items[1]>> /\ result = Items[1]
        /\ iterator = NoIterator
        /\ \A g \in Generators :
              /\ g.pc # "raised" /\ g.pulls = 0
              /\ g.pc = "replay" => StepsOf(g.yielded, Items)
              /\ g.pc = "returned" => StepsOf(g.yielded, Items)
        /\ last.op = "resolve" => last.kind = "return"
        /\ (Len(Items[1].candidates) = 1
            /\ Len(Items[1].candidates[1].content.parts) = 1
            /\ Items[1].candidates[1].content.parts[1].kind = "text")
           => text(Self) = Ok(Items[1].candidates[1].content.parts[1].text)

\* a pass over a complete text response has ended
C3_Witness ==
    /\ FromResponse /\ Items = <<MsgB>>
    /\ \E g \in Generators : g.pc = "returned" /\ Len(g.yielded) = 1
    /\ text(Self) = Ok("b")

\* C4: over an error-free upstream of N messages whose first message is not
\* blocked, a first pass run alone to its end and a second pass run to its
\* end after it yield the same N steps, step k wrapping message k alone; the
\* second pass pulls nothing, and the upstream was pulled N + 1 times.
C4_ReplaySamePass ==
    (FromIterator /\ input.ending = StopIteration /\ ~FirstBlocked) =>
        \A c, d \in Consumers :
            (c # d /\ gens[c].first /\ gens[c].solo
                   /\ gens[c].pc = "returned" /\ gens[d].pc = "returned") =>
                /\ StepsOf(gens[c].yielded, Items)
                /\ gens[d].yielded = gens[c].yielded
                /\ gens[d].pulls = 0
                /\ gens[c].pulls = Len(Items)
                /\ iterator.pos = Len(Items) + 1

\* two passes, one after the other, have ended over a stream of two messages
C4_Witness ==
    /\ FromIterator /\ Items = <<MsgA, MsgB>> /\ input.ending = StopIteration
    /\ gens[1].first /\ gens[1].solo /\ gens[1].pc = "returned"
    /\ gens[2].pc = "returned" /\ Len(gens[2].yielded) = 2

\* C5: in the first pass over an accumulator made by from_iterator, run
\* without another pass or resolve() in between, step k is yielded when the
\* upstream has been pulled k + 1 times, and done is true at that yield
\* exactly when k is the last message of the stream.
C5_LookAhead ==
    FromIterator =>
        \A g \in Generators :
            (g.first /\ g.solo) =>
                \A k \in 1..Len(g.yielded) :
                    /\ g.pullsAt[k] = k + 1
                    /\ g.doneAt[k] <=> (k = Len(Items))

\* the first pass has yielded the last step of a stream of two messages
C5_Witness ==
    /\ FromIterator /\ Len(Items) = 2
    /\ \E g \in Generators :
          g.first /\ g.solo /\ g.pc = "loop" /\ g.doneAt = <<FALSE, TRUE>>

\* C6: over a stream whose first (so also whose sole) message is blocked,
\* a pass raises BlockedPromptException, yields no step and pulls nothing:
\* the upstream is pulled once, at construction; and prompt_feedback
\* returns that message's feedback, its block reason set, in every state.
C6_BlockedPrompt ==
    (FromIterator /\ FirstBlocked) =>
        /\ iterator.pos = 1
        /\ prompt_feedback(Self) = Ok(Items[1].prompt_feedback)
        /\ prompt_feedback(Self).value.block_reason # 0
        /\ \A g \in Generators :
              /\ g.yielded = <<>> /\ g.pulls = 0
              /\ g.pc \in {"none", "new", "raised"}
              /\ g.pc = "raised" => g.exc = BlockedPromptException

\* a pass over a stream whose sole message is blocked has raised
C6_Witness ==
    /\ FromIterator /\ Items = <<MsgBlocked>>
    /\ last.op = "next" /\ last.kind = "raise"
    /\ last.exc = BlockedPromptException

\* C7: once the first message is blocked, every pass that is advanced and
\* every resolve() raises BlockedPromptException, whether the accumulator
\* was made by from_iterator or by from_response.
C7_BlockedRaisedAgain ==
    FirstBlocked =>
        /\ \A g \in Generators :
              /\ g.pc \in {"none", "new", "raised"}
              /\ g.pc = "raised" => g.exc = BlockedPromptException
        /\ last.op = "resolve" =>
              last.kind = "raise" /\ last.exc = BlockedPromptException

\* C8: the end of the upstream sets done and latches no error; an upstream
\* exception is latched as it is, with done set, and the pass that pulled
\* it has yielded every buffered message and raises that exception at its
\* next step, as does the resolve() that pulled it.
C8_UpstreamEnding ==
    (FromIterator /\ iterator.pos > Len(Items)) =>
        /\ done
        /\ input.ending = StopIteration => error = None
        /\ input.ending # StopIteration =>
              /\ error = input.ending
              /\ \A g \in Generators :
                    g.pend # None =>
                        /\ g.pend = input.ending
                        /\ StepsOf(g.yielded, chunks)
                        /\ g.pc \in {"loop", "raised"}
                        /\ g.pc = "raised" => g.exc = g.pend
              /\ (last.op = "resolve" /\ last.pend # None) =>
                    last.kind = "raise" /\ last.exc = input.ending
        /\ \A g \in Generators : g.pend # None => input.ending # StopIteration

\* a pass has yielded both messages, then raised the upstream's exception
C8_Witness ==
    /\ FromIterator /\ input.ending = "TimeoutError"
    /\ \E g \in Generators :
          /\ g.pc = "raised" /\ g.exc = "TimeoutError" /\ g.pend = "TimeoutError"
          /\ Len(g.yielded) = 2

\* C9: after an upstream exception is latched, every pass made later and
\* every later resolve() raises it again.
C9_UpstreamErrorRaisedAgain ==
    error \in UpstreamErrors =>
        /\ \A g \in Generators : g.pc \notin {"replay", "returned"}
        /\ last.op = "resolve" => last.kind = "raise" /\ last.exc = error

\* the stream ended early: a pass or resolve() raised the latched error
FailedEarly ==
    /\ error # None
    /\ \/ \E g \in Generators : g.pc = "raised" /\ g.exc = error
       \/ last.op = "resolve" /\ last.kind = "raise" /\ last.exc = error

\* C10: after the stream ended early, by an upstream exception or by a
\* blocked prompt, the buffer holds every message pulled and candidates
\* returns the candidates merged so far instead of raising.
C10_ReadableAfterFailure ==
    (FromIterator /\ FailedEarly) =>
        /\ chunks = SubSeq(Items, 1, Len(chunks))
        /\ candidates(Self) = Ok(result.candidates)

\* C11: in every state prompt_feedback returns, without raising, the prompt
\* feedback of the first message; no later message changes it.
C11_PromptFeedbackFirst ==
    prompt_feedback(Self) = Ok(Items[1].prompt_feedback)

\* two messages are merged and the second has another prompt feedback
C11_Witness ==
    /\ FromIterator /\ done /\ Len(chunks) = 2
    /\ chunks[2].prompt_feedback # chunks[1].prompt_feedback
    /\ prompt_feedback(Self) = Ok(chunks[1].prompt_feedback)

\* C12: resolve() on an accumulator that is done, or whose error is
\* latched, pulls nothing from the upstream and leaves done, error, the
\* buffer and the result as they were.
C12_ResolveIdempotent ==
    [][((done \/ error # None) /\ Resolve) =>
            /\ UNCHANGED <<iterator, done, error, result, chunks>>
            /\ last'.pulls = 0]_vars

\* resolve() ran on an accumulator of two messages that was done already
C12_Witness ==
    /\ FromIterator /\ done /\ error = None /\ Len(chunks) = 2
    /\ last.op = "resolve" /\ last.pulls = 0

\* C13: on a done accumulator parts raises ValueError when there is no
\* candidate, when there is more than one, and when the only candidate has
\* no part; it returns the parts only of a single candidate that has one.
C13_PartsOfDone ==
    done =>
        parts(Self) =
            IF \/ Len(result.candidates) # 1
               \/ Len(result.candidates[1].content.parts) = 0
            THEN Raise(ValueError)
            ELSE Ok(result.candidates[1].content.parts)

\* C14: on a done accumulator with one candidate, text raises ValueError
\* when the candidate has more than one part or its first part is not
\* text, and otherwise returns the text of its single part.
C14_TextOfDone ==
    (done /\ Len(result.candidates) = 1) =>
        LET ps == result.candidates[1].content.parts
        IN  IF Len(ps) > 1 \/ (Len(ps) >= 1 /\ ps[1].kind # "text")
            THEN text(Self) = Raise(ValueError)
            ELSE Len(ps) = 1 /\ text(Self) = Ok(ps[1].text)

\* C15: the merge is a left fold: joining the messages one at a time gives
\* the same outcome, result or exception, as joining them all at once.
C15_LeftFold ==
    Len(chunks) >= 2 =>
        _join_chunks(chunks) = FoldChunks(chunks)

\* C16: when the accumulated content of a candidate ends in a text part a
\* and the next message's first part for it is a text part b, the merged
\* content has the one part a+b in their place and one part fewer than the
\* two sides together.
C16_TextConcatenated ==
    JoinedOk =>
        \A ix \in Met :
            TextMeetsText(ix) =>
                LET acc == AccParts(ix)
                    nxt == NextParts(ix)
                    out == OutParts(ix)
                    k   == Len(acc)
                IN  /\ Len(out) >= k /\ Len(out) < k + Len(nxt)
                    /\ SubSeq(out, 1, k - 1) = SubSeq(acc, 1, k - 1)
                    /\ out[k].kind = "text"
                    /\ (Len(nxt) = 1 \/ nxt[2].kind # "text") =>
                           out = SubSeq(acc, 1, k - 1)
                                 \o <<TextPart(acc[k].text \o nxt[1].text)>>
                                 \o Tail(nxt)

\* C17: when the last accumulated part of a candidate or the first part of
\* the next message for it is not text, the two stay separate parts, in
\* arrival order, each as it was.
C17_NonTextKept ==
    JoinedOk =>
        \A ix \in Met :
            NonTextMeets(ix) =>
                LET acc == AccParts(ix)
                    nxt == NextParts(ix)
                    out == OutParts(ix)
                    k   == Len(acc)
                IN  /\ Len(out) > k
                    /\ SubSeq(out, 1, k) = acc
                    /\ out[k + 1].kind = nxt[1].kind
                    /\ (nxt[1].kind # "text" \/ Len(nxt) = 1 \/ nxt[2].kind # "text") =>
                           out = acc \o nxt

\* a text part was joined to a function call, and a function call to a text
C17_Witness ==
    /\ JoinedOk
    /\ chunks = <<MsgA, MsgCall, MsgB>>
    /\ OutParts(0) = <<TextPart("a"), CallPart, TextPart("b")>>

\* C18: for every candidate index, the finish reason of that candidate in
\* the accumulated result is the one of the last buffered message that
\* mentions the index.
C18_FinishReasonOfLastMention ==
    \A ix \in IndexesOf(chunks) :
        /\ Mentions(result, ix)
        /\ WithIndex(result, ix)[1].finish_reason =
               Mentioned(chunks, ix)[Len(Mentioned(chunks, ix))].finish_reason

\* the ratings that the messages given so far carry for index ix, in order
RatingsOf(ix) ==
    Flatten([k \in 1..Len(Mentioned(chunks, ix)) |->
                Mentioned(chunks, ix)[k].safety_ratings])

\* C19: the merged ratings of a candidate have exactly one rating for each
\* category some message rated, with the probability of the last message
\* that rated it, blocked iff some message blocked it, and no other rating.
C19_RatingsPerCategory ==
    AllJoined =>
        \A ix \in IndexesOf(chunks) :
            LET all    == RatingsOf(ix)
                merged == WithIndex(result, ix)[1].safety_ratings
            IN  /\ \A i \in 1..Len(all) :
                       \E k \in 1..Len(merged) :
                           /\ merged[k].category = all[i].category
                           /\ \A j \in 1..Len(merged) :
                                  merged[j].category = all[i].category => j = k
                           /\ (\A j \in (i + 1)..Len(all) :
                                   all[j].category # all[i].category) =>
                                  merged[k].probability = all[i].probability
                           /\ merged[k].blocked =
                                  \E j \in 1..Len(all) :
                                      all[j].category = all[i].category /\ all[j].blocked
                /\ \A k \in 1..Len(merged) :
                       \E i \in 1..Len(all) : all[i].category = merged[k].category

\* three messages rated the categories in different orders and subsets
C19_Witness ==
    /\ AllJoined
    /\ chunks = <<MsgRated1, MsgRated2, MsgRated3>>
    /\ result.candidates[1].safety_ratings =
           <<Rating(7, 3, TRUE), Rating(8, 1, TRUE), Rating(9, 1, TRUE)>>

\* the messages given so far have contents of different roles for index ix
RolesDiffer(ix) ==
    \E i, j \in 1..Len(Mentioned(chunks, ix)) :
        Mentioned(chunks, ix)[i].content.role # Mentioned(chunks, ix)[j].content.role

\* every candidate of the messages given so far has a part
AllHaveParts ==
    \A k \in 1..Len(chunks) : \A i \in 1..Len(chunks[k].candidates) :
        chunks[k].candidates[i].content.parts # <<>>

\* C20: when two messages carry contents of different roles for one
\* candidate index the merge raises (an assertion failure) and returns no
\* result; when the contents of every index have one role, the merged
\* content of the index has that role.
C20_RoleAsserted ==
    Len(chunks) >= 2 =>
        /\ JoinRolesDiffer =>
               /\ last.kind = "raise" /\ result = last.prev
               /\ \A ix \in Met :
                      _join_contents(<<WithIndex(last.prev, ix)[1].content,
                                       WithIndex(last.item, ix)[1].content>>).ok =>
                          WithIndex(last.prev, ix)[1].content.role =
                              WithIndex(last.item, ix)[1].content.role
        /\ (\E ix \in IndexesOf(chunks) : RolesDiffer(ix)) =>
               /\ ~_join_chunks(chunks).ok
               /\ AllHaveParts => _join_chunks(chunks) = Raise(AssertionError)
        /\ \A ix \in IndexesOf(chunks) :
               LET contents == [k \in 1..Len(Mentioned(chunks, ix)) |->
                                   Mentioned(chunks, ix)[k].content]
               IN  IF RolesDiffer(ix)
                   THEN _join_contents(contents) = Raise(AssertionError)
                   ELSE /\ _join_contents(contents).exc # AssertionError
                        /\ AllJoined => WithIndex(result, ix)[1].content.role =
                                            contents[1].role

\* a message of role "model" was joined with one of role "user"
C20_Witness ==
    /\ chunks = <<MsgA, MsgUser>>
    /\ last.op = "_join_chunks" /\ last.kind = "raise" /\ last.exc = AssertionError

\* C22: when a message pulled after the first carries a nonzero block
\* reason, BlockedPromptException is latched on the accumulator.
C22_LaterBlockPoisons ==
    FromIterator =>
        \A k \in 2..Len(chunks) :
            chunks[k].prompt_feedback.block_reason # 0 =>
                error = BlockedPromptException

\* C25: whenever control is with the caller, the accumulated result is the
\* left fold of the merge over exactly the buffered messages, in buffer
\* order, also after a pull whose merge raised.
C25_ResultIsFoldOfBuffer ==
    FoldChunks(chunks) = Ok(result)

\* C26: the buffer always holds a message; a step keeps what it holds as a
\* prefix, appends one message for each pull that returned one (a step of
\* a pass pulls at most once), and only a pass or resolve() on an
\* accumulator that is not done changes it.
C26_BufferGrowsOnly ==
    /\ [](Len(chunks) >= 1)
    /\ [][/\ Len(chunks') >= Len(chunks)
          /\ SubSeq(chunks', 1, Len(chunks)) = chunks
          /\ Len(chunks') + iterator.pos <= Len(chunks) + iterator'.pos
          /\ last'.op = "next" => Len(chunks') <= Len(chunks) + 1
          /\ last'.op = "iter" => chunks' = chunks
          /\ chunks' # chunks => (~done /\ last'.op \in {"next", "resolve"})]_vars

\* a step of a pass has appended the second message to the buffer
C26_Witness ==
    /\ FromIterator /\ ~done /\ last.op = "next"
    /\ Len(chunks) = 2 /\ chunks = Items /\ iterator.pos = 2

\* C27: from_iterator pulls once and leaves done false; afterwards the
\* buffer is the messages pulled so far, each once and in arrival order;
\* the upstream is pulled at most once after its last message, done is
\* true from then on, and nothing is pulled while a blocked prompt is
\* latched.
C27_PullDiscipline ==
    FromIterator =>
        /\ iterator.pos >= 1 /\ iterator.pos <= Len(Items) + 1
        /\ chunks = SubSeq(Items, 1, IF iterator.pos <= Len(Items)
                                     THEN iterator.pos ELSE Len(Items))
        /\ last.op = "from_iterator" => (iterator.pos = 1 /\ ~done)
        /\ iterator.pos = Len(Items) + 1 => done
        /\ error = BlockedPromptException => iterator.pos = 1

\* two interleaved passes have both ended over a stream of two messages
C27_Witness ==
    /\ FromIterator /\ Len(Items) = 2 /\ done /\ iterator.pos = 3
    /\ gens[1].pc = "returned" /\ gens[2].pc = "returned"
    /\ ~gens[1].solo /\ gens[1].pulls + gens[2].pulls = 2

\* C28: over an error-free stream whose first message is not blocked, a
\* pass that ran alone from its start to its return has yielded every
\* message of the stream once, in arrival order; a pass that returned
\* without the last message (the witness) was interleaved with another.
C28_AlonePassYieldsAll ==
    (FromIterator /\ input.ending = StopIteration /\ ~FirstBlocked) =>
        \A g \in Generators :
            (g.pc = "returned" /\ g.solo) => StepsOf(g.yielded, Items)

\* a pass interleaved with another has returned after one of two messages
C28_Witness ==
    /\ FromIterator /\ input.ending = StopIteration /\ Items = <<MsgA, MsgB>>
    /\ \E g \in Generators :
          g.pc = "returned" /\ ~g.solo /\ g.yielded = <<from_response(MsgA)>>

\* C23: the candidates of the accumulated result are one for each
\* candidate index that a buffered message mentions, in strictly ascending
\* order of index.
C23_OneEntryPerIndex ==
    /\ {result.candidates[i].index : i \in 1..Len(result.candidates)} =
           IndexesOf(chunks)
    /\ \A i \in 1..(Len(result.candidates) - 1) :
           result.candidates[i].index < result.candidates[i + 1].index

\* C24: the merged citation sources of a candidate are the citation
\* sources of the messages that mention it, end to end in arrival order:
\* none dropped, moved or deduplicated.
C24_CitationsConcatenated ==
    AllJoined =>
        \A ix \in IndexesOf(chunks) :
            WithIndex(result, ix)[1].citation_metadata.citation_sources =
                Flatten([k \in 1..Len(Mentioned(chunks, ix)) |->
                            Mentioned(chunks, ix)[k].citation_metadata.citation_sources])

\* a source cited by both messages is listed twice
C24_Witness ==
    /\ AllJoined
    /\ chunks = <<MsgRated1, MsgRated2>>
    /\ result.candidates[1].citation_metadata.citation_sources = <<"s1", "s2", "s1">>

FromAIterator == input.ctor = "from_aiterator"

\* the synchronous iterator that yields what the async iterator it yields
SyncOf(it) ==
    [it EXCEPT !.ending = IF it.ending = StopAsyncIteration
                          THEN StopIteration ELSE it.ending]

\* an outcome of the async variant, over the synchronous iterator
SyncStep(r) == [self |-> r.self, it |-> SyncOf(r.it), g |-> r.g]

\* what a step shows of the accumulator, the upstream and the generator (a
\* generator that returned or raised has no loop variable left)
Shown(r) == [r EXCEPT !.g.n = IF Live(r.g) THEN r.g.n ELSE 0]

\* the generator g, suspended in the await of its look-ahead, before it
\* issued the call
BeforeCall(g) ==
    [g EXCEPT !.pc = IF g.n = 0 THEN "new" ELSE "loop",
              !.n = IF g.n = 0 THEN 0 ELSE g.n - 1,
              !.pulls = g.pulls - 1]

\* the caller's steps so far came one after the other: none was taken while
\* another was suspended in an await of the upstream
Sequential == ~awaits.overlapped

\* C21: the async and the synchronous accumulator are the same state
\* machine: built from the same upstream they are in the same state; in
\* every state the async one reaches, advancing a pass while no other step
\* is suspended changes done, error, buffer and result, yields and raises
\* as the synchronous pass does from that state; and when the caller's
\* steps came one after the other, a step the upstream suspended and then
\* answered has done what the synchronous step does from the state it
\* started in.
C21_AsyncSameMachine ==
    /\ FromAIterator =>
           LET made == from_aiterator(Iterator(Items, input.ending))
               sync == from_iterator(SyncOf(Iterator(Items, input.ending)))
           IN  made.self = sync.self /\ SyncOf(made.it) = sync.it
    /\ \A c \in Consumers :
           (Live(gens[c]) /\ ~Busy(c)) =>
               Shown(SyncStep(AsyncResume(Self, iterator, gens[c]))) =
                   Shown(Resume(Self, SyncOf(iterator), gens[c]))
    /\ Sequential =>
           \A c \in Consumers :
               /\ gens[c].pc = "await" =>
                      Shown(SyncStep(AsyncAnswered(Self, gens[c],
                                [awaits.answer[c] EXCEPT !.it = iterator]))) =
                          Shown(Resume(Self,
                                       SyncOf([iterator EXCEPT !.pos = iterator.pos - 1]),
                                       BeforeCall(gens[c])))

\* an async pass has yielded both messages of a stream and set done
C21_Witness ==
    /\ FromAIterator /\ Items = <<MsgA, MsgB>> /\ done /\ error = None
    /\ Sequential /\ iterator.pos = 3 /\ awaits.kind = "generator"
    /\ \E g \in Generators :
          g.pc = "loop" /\ StepsOf(g.yielded, Items) /\ g.doneAt = <<FALSE, TRUE>>

\* C29: resolve() on an async accumulator over an error-free stream with
\* no blocked prompt returns with done true, and candidates is readable
\* afterwards.
C29_AsyncResolveDrains ==
    (/\ FromAIterator /\ input.ending = StopAsyncIteration
     /\ \A k \in 1..Len(Items) : Items[k] \in {MsgA, MsgB}
     /\ last.op = "resolve") =>
        /\ last.kind = "return"
        /\ done
        /\ candidates(Self).ok

\* C30: the merge of messages whose contents have one role for each
\* candidate index returns a result, also when a candidate has no part in
\* any message; it raises only for contents of different roles.
C30_MergeTotal ==
    (last.op = "_join_chunks" /\ ~JoinRolesDiffer) => last.kind = "value"

====
